---- MODULE Spec2Model ----
(***************************************************************************)
(* Model of the ebook-tracker backend (server.js, models/Book.js,          *)
(* middleware/auth.js).                                                    *)
(*                                                                         *)
(* The persistent state is the User collection, the Book collection with   *)
(* its embedded vocabulary and notes arrays, the Cloudinary blob store and *)
(* the uploads/ directory of temporary files.  Every HTTP request runs in  *)
(* a request slot; a handler is cut into one step per awaited I/O call, so *)
(* that handlers of different slots interleave exactly where Node lets     *)
(* them interleave.                                                        *)
(*                                                                         *)
(* Strings are sequences of one-character strings so that trim(),          *)
(* toLowerCase(), length and the e-mail regular expression are computed.   *)
(* JSON body values keep their JavaScript type, so that typeof tests and   *)
(* Number() coercion are computed as JavaScript computes them.             *)
(***************************************************************************)
EXTENDS Integers, Sequences, FiniteSets, TLC

VARIABLES users, books, blobs, tmpFiles, reqs, resp, now, nextOid

vars == <<users, books, blobs, tmpFiles, reqs, resp, now, nextOid>>

----------------------------------------------------------------------------
(* Bounds of the model *)

\* User documents that signup may create
MaxUsers == 2
\* ObjectIds (books and embedded entries) that may be generated
MaxOid == 6
\* days the clock may advance
MaxDay == 7
\* largest page count a parsed PDF reports, largest page a client sends
MaxPages == 3
MaxBookPages == 40

\* jwt.sign(..., { expiresIn: '7d' }): token lifetime in days
TokenTTL == 7
\* password.length < 8
MinPasswordLen == 8

----------------------------------------------------------------------------
(* JavaScript strings *)

IsSpace(c) == c = " "

Lower(c) ==
    CASE c = "A" -> "a"
      [] c = "Z" -> "z"
      [] OTHER -> c

toLowerCase(s) == [i \in 1..Len(s) |-> Lower(s[i])]

RECURSIVE TrimLeft(_)
TrimLeft(s) ==
    IF Len(s) > 0 /\ IsSpace(Head(s)) THEN TrimLeft(Tail(s)) ELSE s

RECURSIVE TrimRight(_)
TrimRight(s) ==
    IF Len(s) > 0 /\ IsSpace(s[Len(s)])
    THEN TrimRight(SubSeq(s, 1, Len(s) - 1))
    ELSE s

trim(s) == TrimRight(TrimLeft(s))

\* /^[^\s@]+@[^\s@]+\.[^\s@]+$/
isValidEmail(s) ==
    \E i \in 1..Len(s), j \in 1..Len(s) :
        /\ s[i] = "@"
        /\ s[j] = "."
        /\ 1 < i
        /\ i + 1 < j
        /\ j < Len(s)
        /\ \A k \in 1..Len(s) : ~IsSpace(s[k]) /\ (s[k] = "@" => k = i)

normalizeEmailTrimOnly(s) == trim(s)

\* email.trim().toLowerCase()
normalizeEmail(s) == toLowerCase(trim(s))

----------------------------------------------------------------------------
(* JSON values of a request body: k is the JavaScript type, n + frac/10    *)
(* the value of a number (or 0/1 of a boolean), s the characters of a      *)
(* string.                                                                 *)

JUndefined == [k |-> "undefined", n |-> 0, frac |-> 0, s |-> <<>>]
JNull == [k |-> "null", n |-> 0, frac |-> 0, s |-> <<>>]
JBool(b) == [k |-> "boolean", n |-> IF b THEN 1 ELSE 0, frac |-> 0, s |-> <<>>]
JNum(i, f) == [k |-> "number", n |-> i, frac |-> f, s |-> <<>>]
JStr(str) == [k |-> "string", n |-> 0, frac |-> 0, s |-> str]

Digits == <<"0", "1", "2", "3", "4", "5", "6", "7", "8", "9">>

IsDigit(c) == \E d \in 1..10 : Digits[d] = c

DigitValue(c) == (CHOOSE d \in 1..10 : Digits[d] = c) - 1

RECURSIVE DecimalValue(_)
DecimalValue(s) ==
    IF Len(s) = 0 THEN 0
    ELSE 10 * DecimalValue(SubSeq(s, 1, Len(s) - 1)) + DigitValue(s[Len(s)])

NaN == [nan |-> TRUE, n |-> 0, frac |-> 0]
Num(i, f) == [nan |-> FALSE, n |-> i, frac |-> f]

\* Number(string): surrounding white space is dropped, the empty string is 0,
\* an optionally signed run of decimal digits is its value, anything else NaN
StringToNumber(s) ==
    LET t == trim(s)
        neg == Len(t) > 0 /\ Head(t) = "-"
        body == IF neg THEN Tail(t) ELSE t
    IN  IF Len(t) = 0 THEN Num(0, 0)
        ELSE IF Len(body) > 0 /\ \A i \in 1..Len(body) : IsDigit(body[i])
             THEN Num(IF neg THEN 0 - DecimalValue(body) ELSE DecimalValue(body), 0)
             ELSE NaN

\* Number(value)
ToNumber(v) ==
    CASE v.k = "undefined" -> NaN
      [] v.k = "null" -> Num(0, 0)
      [] v.k = "boolean" -> Num(v.n, 0)
      [] v.k = "number" -> Num(v.n, v.frac)
      [] v.k = "string" -> StringToNumber(v.s)

NumberIsInteger(x) == ~x.nan /\ x.frac = 0

\* parsePage(value): [null |-> TRUE] or the integer
parsePage(value) ==
    LET parsed == ToNumber(value)
    IN  IF NumberIsInteger(parsed) THEN [null |-> FALSE, n |-> parsed.n]
        ELSE [null |-> TRUE, n |-> 0]

\* parseNonEmptyString(value): <<>> for null, else <<the trimmed string>>
parseNonEmptyString(value) ==
    IF value.k # "string" THEN <<>>
    ELSE IF Len(trim(value.s)) = 0 THEN <<>>
    ELSE <<trim(value.s)>>

----------------------------------------------------------------------------
(* Input alphabets: what clients put into requests *)

Email1 == <<"a", "@", "b", ".", "c">>
Email1Upper == <<" ", "A", "@", "b", ".", "c", " ">>
Email2 == <<"z", "@", "b", ".", "c">>
EmailBad == <<"a", "b", ".", "c">>

Pw1 == <<"p", "a", "s", "s", "w", "o", "r", "d">>
Pw2 == <<"p", "a", "s", "s", "w", "0", "r", "d">>
PwShort == <<"s", "e", "c", "r", "e", "t", "1">>

EmailInputs == {JStr(Email1), JStr(Email1Upper), JStr(Email2), JStr(EmailBad), JUndefined}
PasswordInputs == {JStr(Pw1), JStr(Pw2), JStr(PwShort), JNum(12345678, 0)}

----------------------------------------------------------------------------
(* Bearer tokens and the Authorization header *)

JwtSecret == "JWT_SECRET"

NoJwt == [id |-> 0, key |-> "none", exp |-> 0]

\* jwt.sign({ id }, process.env.JWT_SECRET, { expiresIn: '7d' })
jwtSign(id, t) == [id |-> id, key |-> JwtSecret, exp |-> t + TokenTTL]

NoHeader == [scheme |-> "none", kind |-> "none", jwt |-> NoJwt]
Basic == [scheme |-> "Basic", kind |-> "garbage", jwt |-> NoJwt]
BearerEmpty == [scheme |-> "Bearer", kind |-> "empty", jwt |-> NoJwt]
BearerGarbage == [scheme |-> "Bearer", kind |-> "garbage", jwt |-> NoJwt]
Bearer(token) == [scheme |-> "Bearer", kind |-> "jwt", jwt |-> token]

\* tokens login can have issued by day t (the oldest and the newest of each
\* user), and a token signed with another key
IssuedTokens(t, coll) == {jwtSign(u, t0) : u \in 1..Len(coll), t0 \in {0, t}}
ForgedToken(t) == [id |-> 1, key |-> "other", exp |-> t + TokenTTL]

Headers(t, coll) ==
    {NoHeader, Basic, BearerEmpty, BearerGarbage, Bearer(ForgedToken(t))}
        \cup {Bearer(tok) : tok \in IssuedTokens(t, coll)}

jwtVerifyNoExpiry(hdr, t) ==
    /\ hdr.kind = "jwt"
    /\ hdr.jwt.key = JwtSecret

\* jwt.verify(token, process.env.JWT_SECRET): signature and expiry
jwtVerify(hdr, t) ==
    /\ hdr.kind = "jwt"
    /\ hdr.jwt.key = JwtSecret
    /\ t < hdr.jwt.exp

Unauthenticated(msg) == [ok |-> FALSE, status |-> 401, error |-> msg, id |-> 0]

\* the auth middleware: [ok |-> TRUE, id |-> req.user.id] when next() is called,
\* otherwise the 401 response it sends
auth(hdr, t) ==
    IF hdr.scheme # "Bearer" THEN Unauthenticated("Please authenticate.")
    ELSE IF hdr.kind = "empty" THEN Unauthenticated("Please authenticate.")
    ELSE IF ~jwtVerify(hdr, t) THEN Unauthenticated("Invalid token.")
    ELSE IF hdr.jwt.id = 0 THEN Unauthenticated("Invalid token.")
    ELSE [ok |-> TRUE, status |-> 0, error |-> "", id |-> hdr.jwt.id]

----------------------------------------------------------------------------
(* Requests and responses *)

\* the requests that can be in flight together: two connections
Slots == {1, 2}

NoReq ==
    [pc |-> "idle", op |-> "none", hdr |-> NoHeader, uid |-> 0, id |-> 0,
     sub |-> 0, x |-> JUndefined, y |-> JUndefined, doc |-> <<>>]

NoResp == [status |-> 0, error |-> "", data |-> <<>>]

Error(status, msg) == [status |-> status, error |-> msg, data |-> <<>>]
Json(status, data) == [status |-> status, error |-> "", data |-> data]

\* the request a handler starts with, before any of its steps
Request(op, hdr, id, sub, x, y) ==
    [pc |-> "idle", op |-> op, hdr |-> hdr, uid |-> 0, id |-> id,
     sub |-> sub, x |-> x, y |-> y, doc |-> <<>>]

\* slot r ends its request with response rs
Respond(r, rq, rs) ==
    /\ reqs' = [reqs EXCEPT ![r] = [rq EXCEPT !.pc = "done"]]
    /\ resp' = [resp EXCEPT ![r] = rs]

\* slot r goes on to its step pc
Continue(r, rq, pc) ==
    /\ reqs' = [reqs EXCEPT ![r] = [rq EXCEPT !.pc = pc]]
    /\ resp' = [resp EXCEPT ![r] = NoResp]

Idle(r) == reqs[r].pc = "idle"

\* what the first step of a handler decides: the request as it stands after the
\* step and the response sent (NoResp when the handler goes on)
Answer(rq, rs) == [rq |-> [rq EXCEPT !.pc = "done"], rs |-> rs]
Proceed(rq, pc) == [rq |-> [rq EXCEPT !.pc = pc], rs |-> NoResp]

Begin(r, o) ==
    /\ reqs' = [reqs EXCEPT ![r] = o.rq]
    /\ resp' = [resp EXCEPT ![r] = o.rs]

----------------------------------------------------------------------------
(* The User collection *)

bcryptHash(pw) == <<"bcrypt", pw>>
bcryptCompareAny(pw, hash) == TRUE

bcryptCompare(pw, hash) == hash = bcryptHash(pw)

\* User.findOne({ email }): <<>> or <<the _id of the first match>>
UserFindOne(coll, email) ==
    LET hits == {i \in 1..Len(coll) : coll[i].email = email}
    IN  IF hits = {} THEN <<>>
        ELSE <<CHOOSE i \in hits : \A j \in hits : i <= j>>

\* a User collection without the unique index
UserIndexAbsent(coll, doc) == FALSE

\* the unique index on email of the User schema
UserIndexRejects(coll, doc) == \E i \in 1..Len(coll) : coll[i].email = doc.email

UnchangedStore == UNCHANGED <<users, books, blobs, tmpFiles, now, nextOid>>

\* POST /auth/signup, up to and including User.findOne and bcrypt.hash
Signup(r, email, password) ==
    LET rq == Request("signup", NoHeader, 0, 0, email, password)
        normalizedEmail == normalizeEmail(email.s)
    IN  /\ Idle(r)
        /\ UnchangedStore
        /\ IF email.k # "string" \/ password.k # "string"
           THEN Respond(r, rq, Error(400, "Email and password are required."))
           ELSE IF ~isValidEmail(normalizedEmail)
           THEN Respond(r, rq, Error(400, "Invalid email format."))
           ELSE IF Len(password.s) < MinPasswordLen
           THEN Respond(r, rq, Error(400, "Password must be at least 8 characters long."))
           ELSE IF UserFindOne(users, normalizedEmail) # <<>>
           THEN Respond(r, rq, Error(409, "Email already in use."))
           ELSE /\ Len(users) + Cardinality({s \in Slots : reqs[s].pc = "signup.save"})
                       < MaxUsers
                /\ Continue(r, [rq EXCEPT !.doc = <<[email |-> normalizedEmail,
                                   password |-> bcryptHash(password.s)]>>],
                            "signup.save")

\* POST /auth/signup: user.save() and the response
SignupSave(r) ==
    LET rq == reqs[r]
        user == rq.doc[1]
    IN  /\ rq.pc = "signup.save"
        /\ UNCHANGED <<books, blobs, tmpFiles, now, nextOid>>
        /\ IF UserIndexRejects(users, user)
           THEN /\ UNCHANGED users
                /\ Respond(r, rq, Error(500, "Signup failed."))
           ELSE /\ users' = Append(users, user)
                /\ Respond(r, rq, Json(201, <<"User registered successfully!">>))

\* POST /auth/login
LoginStart(coll, t, email, password) ==
    LET rq == Request("login", NoHeader, 0, 0, email, password)
        normalizedEmail == normalizeEmail(email.s)
        user == UserFindOne(coll, normalizedEmail)
    IN  IF email.k # "string" \/ password.k # "string"
        THEN Answer(rq, Error(400, "Email and password are required."))
        ELSE IF user = <<>> \/ ~bcryptCompare(password.s, coll[user[1]].password)
        THEN Answer(rq, Error(400, "Invalid login credentials."))
        ELSE Answer([rq EXCEPT !.uid = user[1]],
                    Json(200, <<jwtSign(user[1], t), user[1]>>))

Login(r, email, password) ==
    /\ Idle(r)
    /\ Begin(r, LoginStart(users, now, email, password))
    /\ UnchangedStore

\* the client of slot r has received the response; the slot is free again
Close(r) ==
    /\ reqs[r].pc = "done"
    /\ reqs' = [reqs EXCEPT ![r] = NoReq]
    /\ resp' = [resp EXCEPT ![r] = NoResp]
    /\ UnchangedStore

\* a day passes
Tick ==
    /\ now < MaxDay
    /\ now' = now + 1
    /\ UNCHANGED <<users, books, blobs, tmpFiles, reqs, resp, nextOid>>

----------------------------------------------------------------------------
(* PATCH /auth/change-password *)

\* auth, the validations, User.findById, bcrypt.compare and bcrypt.hash
ChangePassword(r, hdr, oldPw, newPw) ==
    LET a == auth(hdr, now)
        rq == [Request("changePassword", hdr, 0, 0, oldPw, newPw) EXCEPT !.uid = a.id]
        oldPassword == parseNonEmptyString(oldPw)
        newPassword == parseNonEmptyString(newPw)
    IN  /\ Idle(r)
        /\ UnchangedStore
        /\ IF ~a.ok
           THEN Respond(r, Request("changePassword", hdr, 0, 0, JUndefined, JUndefined),
                        Error(a.status, a.error))
           ELSE IF oldPassword = <<>> \/ newPassword = <<>>
           THEN Respond(r, rq, Error(400, "oldPassword and newPassword are required."))
           ELSE IF Len(newPassword[1]) < MinPasswordLen
           THEN Respond(r, rq, Error(400, "New password must be at least 8 characters long."))
           ELSE IF oldPassword[1] = newPassword[1]
           THEN Respond(r, rq, Error(400, "New password must be different from old password."))
           ELSE IF ~(a.id \in 1..Len(users))
           THEN Respond(r, rq, Error(404, "User not found."))
           ELSE IF ~bcryptCompare(oldPassword[1], users[a.id].password)
           THEN Respond(r, rq, Error(400, "Old password is incorrect."))
           ELSE Continue(r, [rq EXCEPT !.doc = <<[users[a.id] EXCEPT
                                   !.password = bcryptHash(newPassword[1])]>>],
                         "changePassword.save")

\* user.save(): $set of the modified path password
ChangePasswordSave(r) ==
    LET rq == reqs[r]
    IN  /\ rq.pc = "changePassword.save"
        /\ UNCHANGED <<books, blobs, tmpFiles, now, nextOid>>
        /\ users' = [users EXCEPT ![rq.uid].password = rq.doc[1].password]
        /\ Respond(r, rq, Json(200, <<"Password changed successfully.">>))

----------------------------------------------------------------------------
(* The Book collection.  books maps the _id of every stored Book to its     *)
(* document; v is the version key __v.                                      *)

\* mongoose.Types.ObjectId.isValid(id): 0 stands for an id that is no ObjectId
isValidObjectId(id) == id > 0

BookFindById(coll, id, owner) ==
    IF id \in DOMAIN coll THEN <<coll[id]>> ELSE <<>>

\* Book.findOne({ _id: id, owner: owner }): <<>> or <<the document>>
BookFindOne(coll, id, owner) ==
    IF id \in DOMAIN coll /\ coll[id].owner = owner THEN <<coll[id]>> ELSE <<>>

\* array.id(sub): the index of the embedded document with that _id, 0 if none
IndexOfId(arr, sub) ==
    LET hits == {i \in 1..Len(arr) : arr[i].id = sub}
    IN  IF hits = {} THEN 0 ELSE CHOOSE i \in hits : \A j \in hits : i <= j

RemoveAt(arr, i) == [j \in 1..(Len(arr) - 1) |-> IF j < i THEN arr[j] ELSE arr[j + 1]]

\* $pull: { arr: { _id: sub } }
PullId(arr, sub) == SelectSeq(arr, LAMBDA e : e.id # sub)

Put(coll, id, doc) == [i \in DOMAIN coll \cup {id} |-> IF i = id THEN doc ELSE coll[i]]
Drop(coll, id) == [i \in DOMAIN coll \ {id} |-> coll[i]]

(* JavaScript numbers are IEEE 754 doubles.  A positive double is           *)
(* [zero |-> FALSE, exp |-> e, sig |-> the 53 significand bits, the most    *)
(* significant (always 1) first], of value 1.sig[2]...sig[53] * 2^e.        *)

SigBits == 53

DoubleZero == [zero |-> TRUE, exp |-> 0, sig |-> <<>>]

\* the value of at most 30 bits, most significant first
RECURSIVE BitsValue(_)
BitsValue(bits) ==
    IF Len(bits) = 0 THEN 0
    ELSE IF Len(bits) = 1 THEN bits[1]
    ELSE LET h == Len(bits) \div 2
         IN  BitsValue(SubSeq(bits, 1, h)) * 2^(Len(bits) - h)
             + BitsValue(SubSeq(bits, h + 1, Len(bits)))

\* the low n bits of k, most significant first
Bits(k, n) == [i \in 1..n |-> (k \div 2^(n - i)) % 2]

\* the bits of k < 2^30 without leading zeros
Binary(k) == Bits(k, CHOOSE n \in 0..30 : k < 2^n /\ (n = 0 \/ 2^(n - 1) <= k))

\* bits + 1; one bit longer when every bit is 1
Increment(bits) ==
    IF \A i \in 1..Len(bits) : bits[i] = 1
    THEN <<1>> \o [i \in 1..Len(bits) |-> 0]
    ELSE LET j == CHOOSE k \in 1..Len(bits) :
                      bits[k] = 0 /\ \A i \in (k + 1)..Len(bits) : bits[i] = 1
         IN  [i \in 1..Len(bits) |-> IF i < j THEN bits[i] ELSE IF i = j THEN 1 ELSE 0]

\* round to nearest, ties to even: the double nearest to 1.bits[2]... * 2^exp,
\* where sticky says that the exact value has more non-zero bits after bits
RoundToDouble(bits, exp, sticky) ==
    IF Len(bits) <= SigBits
    THEN [zero |-> FALSE, exp |-> exp,
          sig |-> bits \o [i \in 1..(SigBits - Len(bits)) |-> 0]]
    ELSE LET kept == SubSeq(bits, 1, SigBits)
             guard == bits[SigBits + 1]
             rest == sticky \/ \E i \in (SigBits + 2)..Len(bits) : bits[i] = 1
             up == guard = 1 /\ (rest \/ kept[SigBits] = 1)
             sum == IF up THEN Increment(kept) ELSE kept
         IN  IF Len(sum) > SigBits
             THEN [zero |-> FALSE, exp |-> exp + 1, sig |-> SubSeq(sum, 1, SigBits)]
             ELSE [zero |-> FALSE, exp |-> exp, sig |-> sum]

\* a / b scaled by powers of two to 1 <= a / b < 2, with the exponent taken out
RECURSIVE Normalize(_, _, _)
Normalize(a, b, e) ==
    IF a < b THEN Normalize(2 * a, b, e - 1)
    ELSE IF a >= 2 * b THEN Normalize(a, 2 * b, e + 1)
    ELSE [a |-> a, b |-> b, exp |-> e]

\* 2^i modulo b, for i < 60 and b < 2^15
PowerMod(i, b) ==
    LET h == i \div 3
    IN  ((((2^h % b) * (2^h % b)) % b) * (2^(i - 2 * h) % b)) % b

\* what long division of r by b, r < b, leaves after i bits of the quotient
Remainder(r, b, i) == (r * PowerMod(i, b)) % b

\* the first n bits of r / b for r < b, by long division, and the remainder
QuotientBits(r, b, n) ==
    [bits |-> [i \in 1..n |-> IF 2 * Remainder(r, b, i - 1) >= b THEN 1 ELSE 0],
     rem |-> Remainder(r, b, n)]

\* a / b of two integers a >= 0, b > 0, as JavaScript computes it
DoubleDivide(a, b) ==
    IF a = 0 THEN DoubleZero
    ELSE LET s == Normalize(a, b, 0)
             q == QuotientBits(s.a - s.b, s.b, SigBits)
         IN  RoundToDouble(<<1>> \o q.bits, s.exp, q.rem # 0)

\* x * k of a double x and an integer 0 < k < 2^10, as JavaScript computes it:
\* the significand in limbs of 13, 20 and 20 bits, each times k with carry
DoubleTimes(x, k) ==
    IF x.zero THEN DoubleZero
    ELSE LET low == BitsValue(SubSeq(x.sig, SigBits - 20 + 1, SigBits)) * k
             mid == BitsValue(SubSeq(x.sig, SigBits - 40 + 1, SigBits - 20)) * k
                    + low \div 2^20
             high == BitsValue(SubSeq(x.sig, 1, SigBits - 40)) * k
                     + mid \div 2^20
             product == Binary(high) \o Bits(mid % 2^20, 20)
                        \o Bits(low % 2^20, 20)
         IN  RoundToDouble(product, x.exp + Len(product) - SigBits, FALSE)

\* Math.round(x) of a double x >= 0: the nearest integer, a tie going up
MathRound(x) ==
    IF x.zero THEN 0
    ELSE LET n == x.exp + 1
         IN  IF n < 0 THEN 0
             ELSE IF n = 0 THEN 1
             ELSE IF n >= SigBits THEN BitsValue(x.sig) * 2^(n - SigBits)
             ELSE BitsValue(SubSeq(x.sig, 1, n)) + x.sig[n + 1]

\* the virtual progressPercentage
progressPercentage(currentPage, totalPages) ==
    IF totalPages = 0 THEN 0
    ELSE MathRound(DoubleTimes(DoubleDivide(currentPage, totalPages), 100))

\* toJSON of a Book with its virtuals, as the list and upload responses carry it
BookJson(id, book) ==
    [id |-> id, owner |-> book.owner, totalPages |-> book.totalPages,
     currentPage |-> book.currentPage,
     progressPercentage |-> progressPercentage(book.currentPage, book.totalPages)]

RECURSIVE NewestFirst(_, _)
NewestFirst(coll, ids) ==
    IF ids = {} THEN <<>>
    ELSE LET m == CHOOSE i \in ids : \A j \in ids : j <= i
         IN  <<BookJson(m, coll[m])>> \o NewestFirst(coll, ids \ {m})

\* Book.find({ owner }).sort({ createdAt: -1 }); _ids are generated in creation order
BookFind(coll, owner) ==
    NewestFirst(coll, {i \in DOMAIN coll : coll[i].owner = owner})

UnchangedBooks == UNCHANGED <<users, books, blobs, tmpFiles, now, nextOid>>

\* GET /books
ListBooksStart(coll, t, oid, hdr) ==
    LET a == auth(hdr, t)
        rq == [Request("listBooks", hdr, 0, 0, JUndefined, JUndefined) EXCEPT !.uid = a.id]
    IN  IF ~a.ok THEN Answer(rq, Error(a.status, a.error))
           ELSE Answer(rq, Json(200, BookFind(coll, a.id)))

ListBooks(r, hdr) ==
    /\ Idle(r)
    /\ Begin(r, ListBooksStart(books, now, nextOid, hdr))
    /\ UnchangedBooks

ExceedsTotalPagesOffByOne(page, totalPages) == totalPages > 0 /\ page > totalPages + 1

\* book.totalPages > 0 && page > book.totalPages
ExceedsTotalPages(page, totalPages) == totalPages > 0 /\ page > totalPages

\* PATCH /books/:id/progress, up to and including Book.findOne, and the check of
\* the page against the total of the loaded Book
UpdateProgressStart(coll, t, oid, hdr, id, pageValue) ==
    LET a == auth(hdr, t)
        rq == [Request("updateProgress", hdr, id, 0, pageValue, JUndefined) EXCEPT !.uid = a.id]
        page == parsePage(pageValue)
        book == BookFindOne(coll, id, a.id)
    IN  IF ~a.ok
           THEN Answer(Request("updateProgress", hdr, 0, 0, JUndefined, JUndefined),
                        Error(a.status, a.error))
           ELSE IF ~isValidObjectId(id)
           THEN Answer(rq, Error(400, "Invalid book ID."))
           ELSE IF page.null \/ page.n < 0
           THEN Answer(rq, Error(400, "Page must be a non-negative integer."))
           ELSE IF book = <<>>
           THEN Answer(rq, Error(404, "Book not found."))
           ELSE IF ExceedsTotalPages(page.n, book[1].totalPages)
           THEN Answer(rq, [status |-> 400, error |-> "Page cannot exceed total pages",
                                 data |-> <<book[1].totalPages>>])
           ELSE Proceed([rq EXCEPT !.doc = book], "updateProgress.save")

UpdateProgress(r, hdr, id, pageValue) ==
    /\ Idle(r)
    /\ Begin(r, UpdateProgressStart(books, now, nextOid, hdr, id, pageValue))
    /\ UnchangedBooks

\* book.currentPage = page; book.save(): $set of currentPage when it changed,
\* DocumentNotFoundError when the Book is gone
UpdateProgressSave(r) ==
    LET rq == reqs[r]
        page == parsePage(rq.x).n
        loaded == rq.doc[1]
    IN  /\ rq.pc = "updateProgress.save"
        /\ UNCHANGED <<users, blobs, tmpFiles, now, nextOid>>
        /\ IF ~(rq.id \in DOMAIN books)
           THEN /\ UNCHANGED books
                /\ Respond(r, rq, Error(500, "Update failed."))
           ELSE /\ books' = IF page # loaded.currentPage
                            THEN [books EXCEPT ![rq.id].currentPage = page]
                            ELSE books
                /\ Respond(r, rq, Json(200,
                       <<page, progressPercentage(page, loaded.totalPages)>>))

----------------------------------------------------------------------------
(* book.save() of a loaded Book.  Mongoose sends updateOne({ _id }, delta)  *)
(* with the delta of the modified paths only: an array push() becomes       *)
(* $push and increments __v, a subdocument deleteOne() becomes $pull by _id *)
(* and increments __v, an assignment to a field of an array element becomes *)
(* $set of that position and adds __v to the filter.  When no document      *)
(* matches the filter, save() throws and the handler answers 500.           *)

Last(arr) == arr[Len(arr)]

SavePushWholeDocument(stored, local, f) == [local EXCEPT !.v = @ + 1]

\* the stored document after $push of the entry pushed onto local[f]
SavePush(stored, local, f) ==
    [stored EXCEPT ![f] = Append(@, Last(local[f])), !.v = @ + 1]

\* the stored document after $pull of the entry with _id sub from [f]
SavePull(stored, f, sub) ==
    [stored EXCEPT ![f] = PullId(@, sub), !.v = @ + 1]

SaveSetWholeElement(stored, loaded, local, f, i, g1, g2) ==
    [stored EXCEPT ![f][i] = local[f][i]]

\* the stored document after $set of the fields g1, g2 of element i of [f] that
\* differ between the loaded and the local document
SaveSet(stored, loaded, local, f, i, g1, g2) ==
    LET e == stored[f][i]
        e1 == IF local[f][i][g1] # loaded[f][i][g1]
              THEN [e EXCEPT ![g1] = local[f][i][g1]] ELSE e
        e2 == IF local[f][i][g2] # loaded[f][i][g2]
              THEN [e1 EXCEPT ![g2] = local[f][i][g2]] ELSE e1
    IN  [stored EXCEPT ![f][i] = e2]

\* element i of arr with field g1 set to a[1] when a is given, g2 to b[1] when b is
Assign(arr, i, g1, a, g2, b) ==
    LET e1 == IF a # <<>> THEN [arr[i] EXCEPT ![g1] = a[1]] ELSE arr[i]
        e2 == IF b # <<>> THEN [e1 EXCEPT ![g2] = b[1]] ELSE e1
    IN  [arr EXCEPT ![i] = e2]

----------------------------------------------------------------------------
(* Vocabulary *)

\* POST /books/:id/vocab, up to and including Book.findOne and push()
AddVocabStart(coll, t, oid, hdr, id, word, definition) ==
    LET a == auth(hdr, t)
        rq == [Request("addVocab", hdr, id, 0, word, definition) EXCEPT !.uid = a.id]
        book == BookFindOne(coll, id, a.id)
        entry == [id |-> oid, word |-> trim(word.s), definition |-> trim(definition.s)]
    IN  IF ~a.ok
           THEN Answer(Request("addVocab", hdr, 0, 0, JUndefined, JUndefined),
                           Error(a.status, a.error))
           ELSE IF ~isValidObjectId(id)
           THEN Answer(rq, Error(400, "Invalid book ID."))
           ELSE IF word.k # "string" \/ Len(trim(word.s)) = 0
           THEN Answer(rq, Error(400, "word is required."))
           ELSE IF definition.k # "string" \/ Len(trim(definition.s)) = 0
           THEN Answer(rq, Error(400, "definition is required."))
           ELSE IF book = <<>>
           THEN Answer(rq, Error(404, "Book not found."))
           ELSE Proceed([rq EXCEPT !.sub = oid,
                                   !.doc = <<[book[1] EXCEPT !.vocabulary = Append(@, entry)]>>],
                            "addVocab.save")

AddVocab(r, hdr, id, word, definition) ==
    LET o == AddVocabStart(books, now, nextOid, hdr, id, word, definition)
    IN  /\ Idle(r)
        /\ o.rq.pc = "addVocab.save" => nextOid <= MaxOid
        /\ Begin(r, o)
        /\ nextOid' = IF o.rq.pc = "addVocab.save" THEN nextOid + 1 ELSE nextOid
        /\ UNCHANGED <<users, books, blobs, tmpFiles, now>>

\* POST /books/:id/vocab: book.save() and the response
AddVocabSave(r) ==
    LET rq == reqs[r]
    IN  /\ rq.pc = "addVocab.save"
        /\ UNCHANGED <<users, blobs, tmpFiles, now, nextOid>>
        /\ IF ~(rq.id \in DOMAIN books)
           THEN /\ UNCHANGED books
                /\ Respond(r, rq, Error(500, "Could not add vocab."))
           ELSE /\ books' = [books EXCEPT ![rq.id] = SavePush(@, rq.doc[1], "vocabulary")]
                /\ Respond(r, rq, Json(200, rq.doc[1].vocabulary))

\* PATCH /books/:id/vocab/:vocabId, up to and including Book.findOne
UpdateVocabStart(coll, t, oid, hdr, id, sub, wordValue, definitionValue) ==
    LET a == auth(hdr, t)
        rq == [Request("updateVocab", hdr, id, sub, wordValue, definitionValue)
                  EXCEPT !.uid = a.id]
        word == parseNonEmptyString(wordValue)
        definition == parseNonEmptyString(definitionValue)
        book == BookFindOne(coll, id, a.id)
    IN  IF ~a.ok
           THEN Answer(Request("updateVocab", hdr, 0, 0, JUndefined, JUndefined),
                        Error(a.status, a.error))
           ELSE IF ~isValidObjectId(id)
           THEN Answer(rq, Error(400, "Invalid book ID."))
           ELSE IF ~isValidObjectId(sub)
           THEN Answer(rq, Error(400, "Invalid vocab ID."))
           ELSE IF word = <<>> /\ definition = <<>>
           THEN Answer(rq, Error(400, "At least one of word or definition is required."))
           ELSE IF book = <<>>
           THEN Answer(rq, Error(404, "Book not found."))
           ELSE IF IndexOfId(book[1].vocabulary, sub) = 0
           THEN Answer(rq, Error(404, "Vocab not found."))
           ELSE Proceed([rq EXCEPT !.doc = book], "updateVocab.save")

UpdateVocab(r, hdr, id, sub, wordValue, definitionValue) ==
    /\ Idle(r)
    /\ Begin(r, UpdateVocabStart(books, now, nextOid, hdr, id, sub, wordValue, definitionValue))
    /\ UnchangedBooks

\* if (word) vocab.word = word; if (definition) vocab.definition = definition;
\* book.save() and the response
UpdateVocabSave(r) ==
    LET rq == reqs[r]
        loaded == rq.doc[1]
        i == IndexOfId(loaded.vocabulary, rq.sub)
        local == [loaded EXCEPT !.vocabulary =
                     Assign(@, i, "word", parseNonEmptyString(rq.x),
                            "definition", parseNonEmptyString(rq.y))]
        modified == local # loaded
    IN  /\ rq.pc = "updateVocab.save"
        /\ UNCHANGED <<users, blobs, tmpFiles, now, nextOid>>
        /\ IF \/ ~(rq.id \in DOMAIN books)
              \/ modified /\ books[rq.id].v # loaded.v
           THEN /\ UNCHANGED books
                /\ Respond(r, rq, Error(500, "Could not update vocab."))
           ELSE /\ books' = IF modified
                            THEN [books EXCEPT ![rq.id] =
                                     SaveSet(@, loaded, local, "vocabulary", i,
                                             "word", "definition")]
                            ELSE books
                /\ Respond(r, rq, Json(200, <<local.vocabulary[i]>>))

\* DELETE /books/:id/vocab/:vocabId, up to and including Book.findOne
DeleteVocabStart(coll, t, oid, hdr, id, sub) ==
    LET a == auth(hdr, t)
        rq == [Request("deleteVocab", hdr, id, sub, JUndefined, JUndefined)
                  EXCEPT !.uid = a.id]
        book == BookFindOne(coll, id, a.id)
    IN  IF ~a.ok
           THEN Answer(Request("deleteVocab", hdr, 0, 0, JUndefined, JUndefined),
                        Error(a.status, a.error))
           ELSE IF ~isValidObjectId(id)
           THEN Answer(rq, Error(400, "Invalid book ID."))
           ELSE IF ~isValidObjectId(sub)
           THEN Answer(rq, Error(400, "Invalid vocab ID."))
           ELSE IF book = <<>>
           THEN Answer(rq, Error(404, "Book not found."))
           ELSE IF IndexOfId(book[1].vocabulary, sub) = 0
           THEN Answer(rq, Error(404, "Vocab not found."))
           ELSE Proceed([rq EXCEPT !.doc = book], "deleteVocab.save")

DeleteVocab(r, hdr, id, sub) ==
    /\ Idle(r)
    /\ Begin(r, DeleteVocabStart(books, now, nextOid, hdr, id, sub))
    /\ UnchangedBooks

\* vocab.deleteOne(); book.save() and the response
DeleteVocabSave(r) ==
    LET rq == reqs[r]
    IN  /\ rq.pc = "deleteVocab.save"
        /\ UNCHANGED <<users, blobs, tmpFiles, now, nextOid>>
        /\ IF ~(rq.id \in DOMAIN books)
           THEN /\ UNCHANGED books
                /\ Respond(r, rq, Error(500, "Could not delete vocab."))
           ELSE /\ books' = [books EXCEPT ![rq.id] = SavePull(@, "vocabulary", rq.sub)]
                /\ Respond(r, rq, Json(200, <<"Vocab deleted.">>))

----------------------------------------------------------------------------
(* Notes *)

\* POST /books/:id/notes, up to and including Book.findOne and push()
AddNoteStart(coll, t, oid, hdr, id, titleValue, contentValue) ==
    LET a == auth(hdr, t)
        rq == [Request("addNote", hdr, id, 0, titleValue, contentValue) EXCEPT !.uid = a.id]
        title == parseNonEmptyString(titleValue)
        content == parseNonEmptyString(contentValue)
        book == BookFindOne(coll, id, a.id)
    IN  IF ~a.ok
           THEN Answer(Request("addNote", hdr, 0, 0, JUndefined, JUndefined),
                           Error(a.status, a.error))
           ELSE IF ~isValidObjectId(id)
           THEN Answer(rq, Error(400, "Invalid book ID."))
           ELSE IF title = <<>>
           THEN Answer(rq, Error(400, "title is required."))
           ELSE IF content = <<>>
           THEN Answer(rq, Error(400, "content is required."))
           ELSE IF book = <<>>
           THEN Answer(rq, Error(404, "Book not found."))
           ELSE Proceed([rq EXCEPT !.sub = oid,
                                   !.doc = <<[book[1] EXCEPT !.notes = Append(@,
                                       [id |-> oid, title |-> title[1],
                                        content |-> content[1], createdAt |-> t])]>>],
                            "addNote.save")

AddNote(r, hdr, id, titleValue, contentValue) ==
    LET o == AddNoteStart(books, now, nextOid, hdr, id, titleValue, contentValue)
    IN  /\ Idle(r)
        /\ o.rq.pc = "addNote.save" => nextOid <= MaxOid
        /\ Begin(r, o)
        /\ nextOid' = IF o.rq.pc = "addNote.save" THEN nextOid + 1 ELSE nextOid
        /\ UNCHANGED <<users, books, blobs, tmpFiles, now>>

\* POST /books/:id/notes: book.save() and the response
AddNoteSave(r) ==
    LET rq == reqs[r]
    IN  /\ rq.pc = "addNote.save"
        /\ UNCHANGED <<users, blobs, tmpFiles, now, nextOid>>
        /\ IF ~(rq.id \in DOMAIN books)
           THEN /\ UNCHANGED books
                /\ Respond(r, rq, Error(500, "Could not add note."))
           ELSE /\ books' = [books EXCEPT ![rq.id] = SavePush(@, rq.doc[1], "notes")]
                /\ Respond(r, rq, Json(201, <<Last(rq.doc[1].notes)>>))

\* GET /books/:id/notes
GetNotesStart(coll, t, oid, hdr, id) ==
    LET a == auth(hdr, t)
        rq == [Request("listNotes", hdr, id, 0, JUndefined, JUndefined) EXCEPT !.uid = a.id]
        book == BookFindOne(coll, id, a.id)
    IN  IF ~a.ok
           THEN Answer(Request("listNotes", hdr, 0, 0, JUndefined, JUndefined),
                        Error(a.status, a.error))
           ELSE IF ~isValidObjectId(id)
           THEN Answer(rq, Error(400, "Invalid book ID."))
           ELSE IF book = <<>>
           THEN Answer(rq, Error(404, "Book not found."))
           ELSE Answer(rq, Json(200, book[1].notes))

GetNotes(r, hdr, id) ==
    /\ Idle(r)
    /\ Begin(r, GetNotesStart(books, now, nextOid, hdr, id))
    /\ UnchangedBooks

\* PATCH /books/:id/notes/:noteId, up to and including Book.findOne
UpdateNoteStart(coll, t, oid, hdr, id, sub, titleValue, contentValue) ==
    LET a == auth(hdr, t)
        rq == [Request("updateNote", hdr, id, sub, titleValue, contentValue)
                  EXCEPT !.uid = a.id]
        title == parseNonEmptyString(titleValue)
        content == parseNonEmptyString(contentValue)
        book == BookFindOne(coll, id, a.id)
    IN  IF ~a.ok
           THEN Answer(Request("updateNote", hdr, 0, 0, JUndefined, JUndefined),
                        Error(a.status, a.error))
           ELSE IF ~isValidObjectId(id)
           THEN Answer(rq, Error(400, "Invalid book ID."))
           ELSE IF ~isValidObjectId(sub)
           THEN Answer(rq, Error(400, "Invalid note ID."))
           ELSE IF title = <<>> /\ content = <<>>
           THEN Answer(rq, Error(400, "At least one of title or content is required."))
           ELSE IF book = <<>>
           THEN Answer(rq, Error(404, "Book not found."))
           ELSE IF IndexOfId(book[1].notes, sub) = 0
           THEN Answer(rq, Error(404, "Note not found."))
           ELSE Proceed([rq EXCEPT !.doc = book], "updateNote.save")

UpdateNote(r, hdr, id, sub, titleValue, contentValue) ==
    /\ Idle(r)
    /\ Begin(r, UpdateNoteStart(books, now, nextOid, hdr, id, sub, titleValue, contentValue))
    /\ UnchangedBooks

\* if (title) note.title = title; if (content) note.content = content;
\* book.save() and the response
UpdateNoteSave(r) ==
    LET rq == reqs[r]
        loaded == rq.doc[1]
        i == IndexOfId(loaded.notes, rq.sub)
        local == [loaded EXCEPT !.notes =
                     Assign(@, i, "title", parseNonEmptyString(rq.x),
                            "content", parseNonEmptyString(rq.y))]
        modified == local # loaded
    IN  /\ rq.pc = "updateNote.save"
        /\ UNCHANGED <<users, blobs, tmpFiles, now, nextOid>>
        /\ IF \/ ~(rq.id \in DOMAIN books)
              \/ modified /\ books[rq.id].v # loaded.v
           THEN /\ UNCHANGED books
                /\ Respond(r, rq, Error(500, "Could not update note."))
           ELSE /\ books' = IF modified
                            THEN [books EXCEPT ![rq.id] =
                                     SaveSet(@, loaded, local, "notes", i, "title", "content")]
                            ELSE books
                /\ Respond(r, rq, Json(200, <<local.notes[i]>>))

\* DELETE /books/:id/notes/:noteId, up to and including Book.findOne
DeleteNoteStart(coll, t, oid, hdr, id, sub) ==
    LET a == auth(hdr, t)
        rq == [Request("deleteNote", hdr, id, sub, JUndefined, JUndefined)
                  EXCEPT !.uid = a.id]
        book == BookFindOne(coll, id, a.id)
    IN  IF ~a.ok
           THEN Answer(Request("deleteNote", hdr, 0, 0, JUndefined, JUndefined),
                        Error(a.status, a.error))
           ELSE IF ~isValidObjectId(id)
           THEN Answer(rq, Error(400, "Invalid book ID."))
           ELSE IF ~isValidObjectId(sub)
           THEN Answer(rq, Error(400, "Invalid note ID."))
           ELSE IF book = <<>>
           THEN Answer(rq, Error(404, "Book not found."))
           ELSE IF IndexOfId(book[1].notes, sub) = 0
           THEN Answer(rq, Error(404, "Note not found."))
           ELSE Proceed([rq EXCEPT !.doc = book], "deleteNote.save")

DeleteNote(r, hdr, id, sub) ==
    /\ Idle(r)
    /\ Begin(r, DeleteNoteStart(books, now, nextOid, hdr, id, sub))
    /\ UnchangedBooks

\* note.deleteOne(); book.save() and the response
DeleteNoteSave(r) ==
    LET rq == reqs[r]
    IN  /\ rq.pc = "deleteNote.save"
        /\ UNCHANGED <<users, blobs, tmpFiles, now, nextOid>>
        /\ IF ~(rq.id \in DOMAIN books)
           THEN /\ UNCHANGED books
                /\ Respond(r, rq, Error(500, "Could not delete note."))
           ELSE /\ books' = [books EXCEPT ![rq.id] = SavePull(@, "notes", rq.sub)]
                /\ Respond(r, rq, Json(200, <<"Note deleted.">>))

----------------------------------------------------------------------------
(* POST /upload-book *)

\* what the client sends as the multipart field pdf: no file at all, a file
\* that is no PDF, a PDF over the size limit, a PDF of numpages pages, a PDF
\* whose parse yields no page count, a file pdf-parse throws on
NoFile == [kind |-> "none", numpages |-> 0]
NotPdf == [kind |-> "notpdf", numpages |-> 0]
TooBig == [kind |-> "toobig", numpages |-> 0]
Pdf(n) == [kind |-> "pdf", numpages |-> n]
PdfNoCount == [kind |-> "nocount", numpages |-> 0]
Corrupt == [kind |-> "corrupt", numpages |-> 0]

OriginalName == <<"f", ".", "p", "d", "f">>

Max(a, b) == IF a >= b THEN a ELSE b

\* slot r has sent response rs and goes on to its step pc
Reply(r, rq, rs, pc) ==
    /\ reqs' = [reqs EXCEPT ![r] = [rq EXCEPT !.pc = pc]]
    /\ resp' = [resp EXCEPT ![r] = rs]

\* auth and upload.single('pdf'): multer's fileFilter and size limit, then the
\* temporary file uploads/<name>; one fresh id names the temporary file, the
\* blob and the Book of an upload
UploadBook(r, hdr, file, titleValue) ==
    LET a == auth(hdr, now)
        rq == [Request("upload", hdr, 0, 0, titleValue, JUndefined) EXCEPT !.uid = a.id]
    IN  /\ Idle(r)
        /\ UNCHANGED <<users, books, blobs, now>>
        /\ IF ~a.ok
           THEN /\ Respond(r, Request("upload", hdr, 0, 0, JUndefined, JUndefined),
                           Error(a.status, a.error))
                /\ UNCHANGED <<tmpFiles, nextOid>>
           ELSE IF file.kind = "notpdf"
           THEN /\ Respond(r, rq, Error(400, "Only PDF files are allowed."))
                /\ UNCHANGED <<tmpFiles, nextOid>>
           ELSE IF file.kind = "toobig"
           THEN /\ Respond(r, rq, Error(400, "PDF file must be 15 MB or smaller."))
                /\ UNCHANGED <<tmpFiles, nextOid>>
           ELSE IF file.kind = "none"
           THEN /\ Respond(r, rq, Error(400, "PDF required."))
                /\ UNCHANGED <<tmpFiles, nextOid>>
           ELSE /\ nextOid <= MaxOid
                /\ nextOid' = nextOid + 1
                /\ tmpFiles' = tmpFiles \cup {nextOid}
                /\ Continue(r, [rq EXCEPT !.sub = nextOid,
                                   !.doc = <<[file |-> file, totalPages |-> 0]>>],
                            "upload.parse")

UploadParseTolerant(r) ==
    LET rq == reqs[r]
        file == rq.doc[1].file
        totalPages == IF file.kind = "pdf" THEN Max(file.numpages, 0) ELSE 0
    IN  /\ rq.pc = "upload.parse"
        /\ UnchangedStore
        /\ Continue(r, [rq EXCEPT !.doc = <<[file |-> file, totalPages |-> totalPages]>>],
                    "upload.cloud")

\* fs.readFile, pdf(dataBuffer) and totalPages
UploadParse(r) ==
    LET rq == reqs[r]
        file == rq.doc[1].file
        totalPages == IF file.kind = "pdf" THEN Max(file.numpages, 0) ELSE 0
    IN  /\ rq.pc = "upload.parse"
        /\ UnchangedStore
        /\ IF file.kind = "corrupt"
           THEN Reply(r, rq, Error(500, "Upload failed."), "upload.unlink")
           ELSE Continue(r, [rq EXCEPT !.doc = <<[file |-> file, totalPages |-> totalPages]>>],
                         "upload.cloud")

\* cloudinary.uploader.upload
UploadCloud(r, ok) ==
    LET rq == reqs[r]
    IN  /\ rq.pc = "upload.cloud"
        /\ UNCHANGED <<users, books, tmpFiles, now, nextOid>>
        /\ IF ok
           THEN /\ blobs' = blobs \cup {rq.sub}
                /\ Continue(r, rq, "upload.save")
           ELSE /\ UNCHANGED blobs
                /\ Reply(r, rq, Error(500, "Upload failed."), "upload.unlink")

\* the title, new Book(...), newBook.save() and the response
UploadSave(r, ok) ==
    LET rq == reqs[r]
        given == parseNonEmptyString(rq.x)
        newBook == [owner |-> rq.uid,
                    title |-> IF given # <<>> THEN given[1] ELSE OriginalName,
                    cloudinaryId |-> rq.sub,
                    totalPages |-> rq.doc[1].totalPages,
                    currentPage |-> 0,
                    vocabulary |-> <<>>,
                    notes |-> <<>>,
                    v |-> 0,
                    createdAt |-> now]
    IN  /\ rq.pc = "upload.save"
        /\ UNCHANGED <<users, blobs, tmpFiles, now, nextOid>>
        /\ IF ok
           THEN /\ books' = Put(books, rq.sub, newBook)
                /\ Reply(r, [rq EXCEPT !.id = rq.sub],
                         Json(201, <<BookJson(rq.sub, newBook)>>), "upload.unlink")
           ELSE /\ UNCHANGED books
                /\ Reply(r, rq, Error(500, "Upload failed."), "upload.unlink")

\* finally: fs.unlink(filePath).catch(() => undefined)
UploadUnlink(r, ok) ==
    LET rq == reqs[r]
    IN  /\ rq.pc = "upload.unlink"
        /\ UNCHANGED <<users, books, blobs, now, nextOid>>
        /\ tmpFiles' = IF ok THEN tmpFiles \ {rq.sub} ELSE tmpFiles
        /\ Reply(r, rq, resp[r], "done")

----------------------------------------------------------------------------
(* DELETE /books/:id *)

\* up to and including Book.findOne
DeleteBookStart(coll, t, oid, hdr, id) ==
    LET a == auth(hdr, t)
        rq == [Request("deleteBook", hdr, id, 0, JUndefined, JUndefined) EXCEPT !.uid = a.id]
        book == BookFindOne(coll, id, a.id)
    IN  IF ~a.ok
           THEN Answer(Request("deleteBook", hdr, 0, 0, JUndefined, JUndefined),
                        Error(a.status, a.error))
           ELSE IF ~isValidObjectId(id)
           THEN Answer(rq, Error(400, "Invalid book ID."))
           ELSE IF book = <<>>
           THEN Answer(rq, Error(404, "Unauthorized or not found."))
           ELSE Proceed([rq EXCEPT !.doc = book], "deleteBook.destroy")

DeleteBook(r, hdr, id) ==
    /\ Idle(r)
    /\ Begin(r, DeleteBookStart(books, now, nextOid, hdr, id))
    /\ UnchangedBooks

DeleteBookDestroyIgnoringFailure(r, ok) ==
    LET rq == reqs[r]
    IN  /\ rq.pc = "deleteBook.destroy"
        /\ UNCHANGED <<users, books, tmpFiles, now, nextOid>>
        /\ blobs' = IF ok THEN blobs \ {rq.doc[1].cloudinaryId} ELSE blobs
        /\ Continue(r, rq, "deleteBook.remove")

\* cloudinary.uploader.destroy(book.cloudinaryId): resolves when the blob is
\* removed and when there is no such blob, rejects when the call fails
DeleteBookDestroy(r, ok) ==
    LET rq == reqs[r]
    IN  /\ rq.pc = "deleteBook.destroy"
        /\ UNCHANGED <<users, books, tmpFiles, now, nextOid>>
        /\ IF ok
           THEN /\ blobs' = blobs \ {rq.doc[1].cloudinaryId}
                /\ Continue(r, rq, "deleteBook.remove")
           ELSE /\ UNCHANGED blobs
                /\ Respond(r, rq, Error(500, "Delete failed."))

\* Book.findByIdAndDelete(id): the collection without the Book of that _id
findByIdAndDelete(coll, id) == Drop(coll, id)

\* Book.findByIdAndDelete(req.params.id) and the response
DeleteBookRemove(r, ok) ==
    LET rq == reqs[r]
    IN  /\ rq.pc = "deleteBook.remove"
        /\ UNCHANGED <<users, blobs, tmpFiles, now, nextOid>>
        /\ IF ok
           THEN /\ books' = findByIdAndDelete(books, rq.id)
                /\ Respond(r, rq, Json(200, <<"Book deleted.">>))
           ELSE /\ UNCHANGED books
                /\ Respond(r, rq, Error(500, "Delete failed."))

----------------------------------------------------------------------------
(* Initial states *)

NoBooks == [i \in {} |-> 0]

\* the server after startServer(): empty collections, empty blob store
Init ==
    /\ users = <<>>
    /\ books = NoBooks
    /\ blobs = {}
    /\ tmpFiles = {}
    /\ reqs = [r \in Slots |-> NoReq]
    /\ resp = [r \in Slots |-> NoResp]
    /\ now = 0
    /\ nextOid = 1

\* words, definitions, titles and contents clients send
Word1 == <<"w">>
Word2 == <<" ", "v", " ">>
Text1 == <<"d">>
Text2 == <<"e">>

\* a library in use on day TokenTTL - 1: two registered users; user 1 has
\* uploaded Book 1 (two pages, read to page 1) and added one vocabulary entry
\* and one note to it, user 2 has uploaded Book 2; one more ObjectId can be
\* generated
LibraryUsers ==
    <<[email |-> Email1, password |-> bcryptHash(Pw1)],
      [email |-> Email2, password |-> bcryptHash(Pw2)]>>

LibraryBook1 ==
    [owner |-> 1, title |-> OriginalName, cloudinaryId |-> 1, totalPages |-> 2,
     currentPage |-> 1,
     vocabulary |-> <<[id |-> 3, word |-> Word1, definition |-> Text1]>>,
     notes |-> <<[id |-> 4, title |-> Word1, content |-> Text1, createdAt |-> 0]>>,
     v |-> 2, createdAt |-> 0]

LibraryBook2 ==
    [owner |-> 2, title |-> OriginalName, cloudinaryId |-> 2, totalPages |-> 0,
     currentPage |-> 0, vocabulary |-> <<>>, notes |-> <<>>, v |-> 0, createdAt |-> 0]

InitLibrary ==
    /\ users = LibraryUsers
    /\ books = Put(Put(NoBooks, 1, LibraryBook1), 2, LibraryBook2)
    /\ blobs = {1, 2}
    /\ tmpFiles = {}
    /\ reqs = [r \in Slots |-> NoReq]
    /\ resp = [r \in Slots |-> NoResp]
    /\ now = TokenTTL - 1
    /\ nextOid = MaxOid

----------------------------------------------------------------------------
(* Accounts: signup, login and change-password, two connections *)

ChangePasswordInputs == {JStr(Pw1), JStr(Pw2), JStr(PwShort), JUndefined}

NextAuth ==
    \/ \E r \in Slots, e \in EmailInputs, p \in PasswordInputs : Signup(r, e, p)
    \/ \E r \in Slots : SignupSave(r)
    \/ \E r \in Slots, e \in EmailInputs, p \in PasswordInputs : Login(r, e, p)
    \/ \E r \in Slots, hdr \in Headers(now, users),
          o \in ChangePasswordInputs, n \in ChangePasswordInputs :
          ChangePassword(r, hdr, o, n)
    \/ \E r \in Slots : ChangePasswordSave(r)
    \/ \E r \in Slots : Close(r)

SpecAuth == Init /\ [][NextAuth]_vars

----------------------------------------------------------------------------
(* Claims about accounts *)

\* slot r starts a request of operation op in this step
Starts(r, op) == reqs[r].pc = "idle" /\ reqs'[r].pc # "idle" /\ reqs'[r].op = op

\* the case-normalized form of an address: trimmed and lower-cased
CanonicalEmail(s) == toLowerCase(trim(s))

Registered(s) == \E i \in 1..Len(users) : users[i].email = CanonicalEmail(s)

\* C8: a valid signup whose case-normalized email is already registered fails
\* with 409 Conflict and creates no User record
C8_DuplicateSignupConflicts ==
    [][\A r \in Slots :
          (/\ Starts(r, "signup")
           /\ reqs'[r].x.k = "string" /\ reqs'[r].y.k = "string"
           /\ isValidEmail(CanonicalEmail(reqs'[r].x.s))
           /\ Len(reqs'[r].y.s) >= MinPasswordLen
           /\ Registered(reqs'[r].x.s))
          => (/\ reqs'[r].pc = "done"
              /\ resp'[r] = Error(409, "Email already in use.")
              /\ users' = users)]_vars

\* a signup with the address of a registered user written in another case and
\* with surrounding blanks has been answered 409
C8_Witness ==
    \E r \in Slots :
        /\ reqs[r].op = "signup" /\ reqs[r].pc = "done"
        /\ resp[r].status = 409
        /\ reqs[r].x.s = Email1Upper
        /\ \E i \in 1..Len(users) : users[i].email = Email1

\* the password is the one the stored hash of the registered address was made of
CredentialsMatch(email, password) ==
    \E i \in 1..Len(users) :
        /\ users[i].email = CanonicalEmail(email)
        /\ users[i].password = bcryptHash(password)

\* C9: login answers 200 with a token for the user's id exactly when the
\* normalized email is registered and the password matches the stored hash, and
\* every other login gets the response an unregistered address gets
C9_LoginExactlyOnMatch ==
    [][\A r \in Slots :
          (Starts(r, "login") /\ reqs'[r].x.k = "string" /\ reqs'[r].y.k = "string")
          => LET email == reqs'[r].x.s
                 password == reqs'[r].y.s
             IN  /\ reqs'[r].pc = "done"
                 /\ users' = users
                 /\ (resp'[r].status = 200) <=> CredentialsMatch(email, password)
                 /\ resp'[r].status = 200 =>
                       /\ users[reqs'[r].uid].email = CanonicalEmail(email)
                       /\ resp'[r].data = <<jwtSign(reqs'[r].uid, now), reqs'[r].uid>>
                 /\ resp'[r].status # 200 =>
                       resp'[r] = LoginStart(<<>>, now, reqs'[r].x, reqs'[r].y).rs]_vars

\* one login of a registered address with a wrong password has been refused
\* while another login of that address has been given a token
C9_Witness ==
    \E r1 \in Slots, r2 \in Slots :
        /\ reqs[r1].op = "login" /\ reqs[r1].pc = "done" /\ resp[r1].status = 400
        /\ reqs[r1].x.k = "string" /\ reqs[r1].y.k = "string"
        /\ Registered(reqs[r1].x.s)
        /\ reqs[r2].op = "login" /\ reqs[r2].pc = "done" /\ resp[r2].status = 200
        /\ resp[r2].data[1].id = reqs[r2].uid

\* slot r holds a signup for the normalized address e that got past the
\* existence check
SignupFor(r, e) ==
    /\ reqs[r].op = "signup"
    /\ reqs[r].doc # <<>>
    /\ reqs[r].doc[1].email = e

\* slot r holds a signup that has been answered with the given status
SignupAnswered(r, status) ==
    /\ reqs[r].op = "signup" /\ reqs[r].pc = "done"
    /\ resp[r].status = status

\* C16: under every interleaving of signups, two concurrent ones whose
\* existence checks both ran before either save included, at most one User
\* record exists per normalized email and at most one of the signups for one
\* normalized email reports success
C16_EmailUniqueUnderInterleaving ==
    /\ \A i \in 1..Len(users), j \in 1..Len(users) :
          users[i].email = users[j].email => i = j
    /\ \A i \in 1..Len(users) : users[i].email = CanonicalEmail(users[i].email)
    /\ \A r1 \in Slots, r2 \in Slots :
          (/\ SignupAnswered(r1, 201) /\ SignupAnswered(r2, 201)
           /\ CanonicalEmail(reqs[r1].x.s) = CanonicalEmail(reqs[r2].x.s))
          => r1 = r2

\* two signups for one normalized address, written differently, both got past
\* the existence check; one has been answered 201 and the other 500, and one
\* User record holds the address
C16_Witness ==
    \E r1 \in Slots, r2 \in Slots :
        /\ SignupFor(r1, Email1) /\ SignupFor(r2, Email1)
        /\ reqs[r1].x.s # reqs[r2].x.s
        /\ SignupAnswered(r1, 201) /\ SignupAnswered(r2, 500)
        /\ Cardinality({i \in 1..Len(users) : users[i].email = Email1}) = 1

----------------------------------------------------------------------------
(* The gate: every protected route behind auth, one connection, the clock   *)
(* running past the expiry of the first tokens                              *)

NextGate ==
    \/ \E p \in {JStr(Pw1), JStr(PwShort)} : Login(1, JStr(Email1), p)
    \/ Tick
    \/ \E hdr \in Headers(now, users) : ChangePassword(1, hdr, JStr(Pw1), JStr(Pw2))
    \/ ChangePasswordSave(1)
    \/ \E hdr \in Headers(now, users) : UploadBook(1, hdr, Pdf(1), JUndefined)
    \/ UploadParse(1)
    \/ UploadCloud(1, TRUE)
    \/ UploadSave(1, TRUE)
    \/ UploadUnlink(1, TRUE)
    \/ \E hdr \in Headers(now, users) : ListBooks(1, hdr)
    \/ \E hdr \in Headers(now, users) : UpdateProgress(1, hdr, 1, JNum(2, 0))
    \/ UpdateProgressSave(1)
    \/ \E hdr \in Headers(now, users) : AddVocab(1, hdr, 1, JStr(Word2), JStr(Text2))
    \/ AddVocabSave(1)
    \/ \E hdr \in Headers(now, users) : UpdateVocab(1, hdr, 1, 3, JStr(Word2), JUndefined)
    \/ UpdateVocabSave(1)
    \/ \E hdr \in Headers(now, users) : DeleteVocab(1, hdr, 1, 3)
    \/ DeleteVocabSave(1)
    \/ \E hdr \in Headers(now, users) : AddNote(1, hdr, 1, JStr(Word2), JStr(Text2))
    \/ AddNoteSave(1)
    \/ \E hdr \in Headers(now, users) : GetNotes(1, hdr, 1)
    \/ \E hdr \in Headers(now, users) : UpdateNote(1, hdr, 1, 4, JUndefined, JStr(Text2))
    \/ UpdateNoteSave(1)
    \/ \E hdr \in Headers(now, users) : DeleteNote(1, hdr, 1, 4)
    \/ DeleteNoteSave(1)
    \/ \E hdr \in Headers(now, users) : DeleteBook(1, hdr, 1)
    \/ DeleteBookDestroy(1, TRUE)
    \/ DeleteBookRemove(1, TRUE)
    \/ Close(1)

SpecGate == InitLibrary /\ [][NextGate]_vars

ProtectedOps ==
    {"changePassword", "upload", "listBooks", "updateProgress", "addVocab",
     "updateVocab", "deleteVocab", "addNote", "listNotes", "updateNote",
     "deleteNote", "deleteBook"}

\* the header is Bearer <token> with a token signed with the server's secret
\* that has not expired on day t
CarriesValidToken(hdr, t) ==
    /\ hdr.scheme = "Bearer"
    /\ hdr.kind = "jwt"
    /\ hdr.jwt.key = JwtSecret
    /\ t < hdr.jwt.exp

\* C7: a protected request whose header carries no valid token is answered 401
\* at once and changes no User, Book, blob or file; one that carries a valid
\* token is not answered 401 and runs as the user the token names; and the token
\* a successful login returns is valid on the day of the login and names the
\* user that logged in
C7_AuthGate ==
    [][\A r \in Slots :
          /\ (\E op \in ProtectedOps : Starts(r, op))
             => IF CarriesValidToken(reqs'[r].hdr, now)
                THEN /\ resp'[r].status # 401
                     /\ reqs'[r].uid = reqs'[r].hdr.jwt.id
                ELSE /\ reqs'[r].pc = "done"
                     /\ resp'[r].status = 401
                     /\ UNCHANGED <<users, books, blobs, tmpFiles>>
          /\ (Starts(r, "login") /\ resp'[r].status = 200)
             => /\ CarriesValidToken(Bearer(resp'[r].data[1]), now)
                /\ auth(Bearer(resp'[r].data[1]), now).ok
                /\ auth(Bearer(resp'[r].data[1]), now).id = reqs'[r].uid
                /\ users[reqs'[r].uid].email = CanonicalEmail(reqs'[r].x.s)]_vars

\* on a day when the tokens of day 0 have expired, a request carrying one of
\* them has been answered 401
C7_Witness ==
    /\ reqs[1].pc = "done"
    /\ reqs[1].op \in ProtectedOps
    /\ reqs[1].hdr.kind = "jwt"
    /\ reqs[1].hdr.jwt.key = JwtSecret
    /\ reqs[1].hdr.jwt.exp <= now
    /\ resp[1].status = 401

----------------------------------------------------------------------------
(* The shelf: every book, vocabulary and note route, one connection, both   *)
(* users signed in                                                          *)

ShelfHeaders == {Bearer(jwtSign(u, now)) : u \in 1..Len(users)}
ShelfIds == {0, 1, 2}
ShelfSubIds == {0, 3, 4}
ShelfPages == {JNum(0, 0), JNum(MaxPages, 0)}
ShelfWords == {JStr(Word2), JUndefined}
ShelfTexts == {JStr(Text2), JUndefined}

NextShelf ==
    \/ \E hdr \in ShelfHeaders : ListBooks(1, hdr)
    \/ \E hdr \in ShelfHeaders, id \in ShelfIds, p \in ShelfPages :
          UpdateProgress(1, hdr, id, p)
    \/ UpdateProgressSave(1)
    \/ \E hdr \in ShelfHeaders, id \in ShelfIds, w \in ShelfWords, d \in ShelfTexts :
          AddVocab(1, hdr, id, w, d)
    \/ AddVocabSave(1)
    \/ \E hdr \in ShelfHeaders, id \in ShelfIds, sub \in ShelfSubIds,
          w \in ShelfWords, d \in ShelfTexts : UpdateVocab(1, hdr, id, sub, w, d)
    \/ UpdateVocabSave(1)
    \/ \E hdr \in ShelfHeaders, id \in ShelfIds, sub \in ShelfSubIds :
          DeleteVocab(1, hdr, id, sub)
    \/ DeleteVocabSave(1)
    \/ \E hdr \in ShelfHeaders, id \in ShelfIds, d \in ShelfTexts :
          AddNote(1, hdr, id, JStr(Word2), d)
    \/ AddNoteSave(1)
    \/ \E hdr \in ShelfHeaders, id \in ShelfIds : GetNotes(1, hdr, id)
    \/ \E hdr \in ShelfHeaders, id \in ShelfIds, sub \in ShelfSubIds, d \in ShelfTexts :
          UpdateNote(1, hdr, id, sub, JStr(Word2), d)
    \/ UpdateNoteSave(1)
    \/ \E hdr \in ShelfHeaders, id \in ShelfIds, sub \in ShelfSubIds :
          DeleteNote(1, hdr, id, sub)
    \/ DeleteNoteSave(1)
    \/ \E hdr \in ShelfHeaders, id \in ShelfIds : DeleteBook(1, hdr, id)
    \/ DeleteBookDestroy(1, TRUE)
    \/ DeleteBookRemove(1, TRUE)
    \/ Close(1)

SpecShelf == InitLibrary /\ [][NextShelf]_vars

BookOps ==
    {"updateProgress", "addVocab", "updateVocab", "deleteVocab", "addNote",
     "listNotes", "updateNote", "deleteNote", "deleteBook"}

\* what the first step of the handler of request rq decides against the Book
\* collection coll
FirstStep(rq, coll) ==
    CASE rq.op = "updateProgress" ->
             UpdateProgressStart(coll, now, nextOid, rq.hdr, rq.id, rq.x)
      [] rq.op = "addVocab" -> AddVocabStart(coll, now, nextOid, rq.hdr, rq.id, rq.x, rq.y)
      [] rq.op = "updateVocab" ->
             UpdateVocabStart(coll, now, nextOid, rq.hdr, rq.id, rq.sub, rq.x, rq.y)
      [] rq.op = "deleteVocab" -> DeleteVocabStart(coll, now, nextOid, rq.hdr, rq.id, rq.sub)
      [] rq.op = "addNote" -> AddNoteStart(coll, now, nextOid, rq.hdr, rq.id, rq.x, rq.y)
      [] rq.op = "listNotes" -> GetNotesStart(coll, now, nextOid, rq.hdr, rq.id)
      [] rq.op = "updateNote" ->
             UpdateNoteStart(coll, now, nextOid, rq.hdr, rq.id, rq.sub, rq.x, rq.y)
      [] rq.op = "deleteNote" -> DeleteNoteStart(coll, now, nextOid, rq.hdr, rq.id, rq.sub)
      [] rq.op = "deleteBook" -> DeleteBookStart(coll, now, nextOid, rq.hdr, rq.id)

\* slot r starts, as user req.user.id, a request on a stored Book of another owner
StartsOnForeignBook(r) ==
    /\ \E op \in BookOps : Starts(r, op)
    /\ reqs'[r].uid # 0
    /\ reqs'[r].id \in DOMAIN books
    /\ books[reqs'[r].id].owner # reqs'[r].uid

\* C1: a book request of a user on the Book of another owner ends at once with
\* the response the same request gets when that Book is not in the collection,
\* and changes no Book and no blob; the list of a user holds own Books only
C1_OwnershipIsolation ==
    [][\A r \in Slots :
          /\ StartsOnForeignBook(r)
             => /\ reqs'[r].pc = "done"
                /\ resp'[r] = FirstStep(reqs'[r], Drop(books, reqs'[r].id)).rs
                /\ resp'[r].status \in {400, 404}
                /\ UNCHANGED <<books, blobs>>
          /\ (Starts(r, "listBooks") /\ resp'[r].status = 200)
             => /\ \A i \in 1..Len(resp'[r].data) :
                      /\ resp'[r].data[i].owner = reqs'[r].uid
                      /\ books[resp'[r].data[i].id].owner = reqs'[r].uid
                /\ \A b \in DOMAIN books :
                      books[b].owner = reqs'[r].uid
                      => \E i \in 1..Len(resp'[r].data) : resp'[r].data[i].id = b]_vars

\* user 2 has asked to delete Book 1 of user 1, which is still stored with its
\* vocabulary, its notes and its blob, and has been answered 404
C1_Witness ==
    /\ reqs[1].pc = "done"
    /\ reqs[1].op = "deleteBook"
    /\ reqs[1].uid = 2
    /\ reqs[1].id = 1
    /\ resp[1].status = 404
    /\ 1 \in DOMAIN books
    /\ books[1].owner = 1
    /\ books[1].cloudinaryId \in blobs

----------------------------------------------------------------------------
(* Concurrent appends: two connections of user 1 adding vocabulary and      *)
(* notes to Book 1                                                          *)

\* the library when ObjectIds 1 to 4 have been generated
InitAppends ==
    /\ users = LibraryUsers
    /\ books = Put(Put(NoBooks, 1, LibraryBook1), 2, LibraryBook2)
    /\ blobs = {1, 2}
    /\ tmpFiles = {}
    /\ reqs = [r \in Slots |-> NoReq]
    /\ resp = [r \in Slots |-> NoResp]
    /\ now = TokenTTL - 1
    /\ nextOid = 5

NextAppends ==
    \/ \E r \in Slots, w \in {JStr(Word1), JStr(Word2)} :
          AddVocab(r, Bearer(jwtSign(1, now)), 1, w, JStr(Text2))
    \/ \E r \in Slots : AddVocabSave(r)
    \/ \E r \in Slots, w \in {JStr(Word1), JStr(Word2)} :
          AddNote(r, Bearer(jwtSign(1, now)), 1, w, JStr(Text2))
    \/ \E r \in Slots : AddNoteSave(r)
    \/ \E r \in Slots : Close(r)

SpecAppends == InitAppends /\ [][NextAppends]_vars

\* the embedded collection the operation appends to
AppendedField(op) == IF op = "addVocab" THEN "vocabulary" ELSE "notes"

\* slot r has finished an addVocab or addNote with a success response
AppendSucceeded(r) ==
    /\ reqs[r].op \in {"addVocab", "addNote"}
    /\ reqs[r].pc = "done"
    /\ resp[r].status \in {200, 201}

\* C2: the entry of every addVocab and addNote that has reported success is in
\* the stored collection of its Book, whatever the other connection did between
\* its load and its save
C2_AppendsNotLost ==
    \A r \in Slots :
        AppendSucceeded(r)
        => /\ reqs[r].id \in DOMAIN books
           /\ \E i \in 1..Len(books[reqs[r].id][AppendedField(reqs[r].op)]) :
                 books[reqs[r].id][AppendedField(reqs[r].op)][i]
                     = Last(reqs[r].doc[1][AppendedField(reqs[r].op)])

\* two addVocab requests on Book 1 that both loaded the Book before either
\* saved it (neither response shows the entry of the other) have both succeeded
C2_Witness ==
    /\ AppendSucceeded(1) /\ AppendSucceeded(2)
    /\ reqs[1].op = "addVocab" /\ reqs[2].op = "addVocab"
    /\ reqs[1].id = reqs[2].id
    /\ IndexOfId(resp[1].data, reqs[2].sub) = 0
    /\ IndexOfId(resp[2].data, reqs[1].sub) = 0
    /\ Len(books[1].vocabulary) = 3

----------------------------------------------------------------------------
(* Uploads and deletions: two connections of user 1, with the blob store,   *)
(* the database and the file system failing at any call                     *)

\* both users registered, no Book stored, ObjectIds 1 to 4 generated before
InitUploads ==
    /\ users = LibraryUsers
    /\ books = NoBooks
    /\ blobs = {}
    /\ tmpFiles = {}
    /\ reqs = [r \in Slots |-> NoReq]
    /\ resp = [r \in Slots |-> NoResp]
    /\ now = TokenTTL - 1
    /\ nextOid = 5

UploadFiles == {NoFile, NotPdf, TooBig, Pdf(1), PdfNoCount, Corrupt}

NextUploads ==
    \/ \E r \in Slots, file \in UploadFiles :
          UploadBook(r, Bearer(jwtSign(1, now)), file, JUndefined)
    \/ \E r \in Slots : UploadParse(r)
    \/ \E r \in Slots, ok \in BOOLEAN : UploadCloud(r, ok)
    \/ \E r \in Slots, ok \in BOOLEAN : UploadSave(r, ok)
    \/ \E r \in Slots, ok \in BOOLEAN : UploadUnlink(r, ok)
    \/ \E r \in Slots, id \in 5..MaxOid : DeleteBook(r, Bearer(jwtSign(1, now)), id)
    \/ \E r \in Slots, ok \in BOOLEAN : DeleteBookDestroy(r, ok)
    \/ \E r \in Slots, ok \in BOOLEAN : DeleteBookRemove(r, ok)
    \/ \E r \in Slots : Close(r)

SpecUploads == InitUploads /\ [][NextUploads]_vars

\* C3: a step that removes a Book record finds its blob already gone from the
\* blob store; a deleteBook request goes on from the blob removal to the record
\* removal only with the blob gone, and otherwise (the blob removal failed) it
\* ends there with 500 and every Book record in place
C3_BlobBeforeRecord ==
    [][/\ \A b \in DOMAIN books :
             b \notin DOMAIN books' => books[b].cloudinaryId \notin blobs
       /\ \A r \in Slots :
             (reqs[r].pc = "deleteBook.destroy" /\ reqs'[r] # reqs[r])
             => IF reqs'[r].pc = "deleteBook.remove"
                THEN reqs[r].doc[1].cloudinaryId \notin blobs'
                ELSE /\ reqs'[r].pc = "done"
                     /\ resp'[r].status = 500
                     /\ books' = books]_vars

\* a deleteBook whose blob removal failed has been answered 500; the Book and
\* its blob are both still stored
C3_Witness ==
    \E r \in Slots :
        /\ reqs[r].op = "deleteBook" /\ reqs[r].pc = "done"
        /\ resp[r].status = 500
        /\ reqs[r].id \in DOMAIN books
        /\ books[reqs[r].id].cloudinaryId \in blobs

\* C4: when an upload has ended in failure, there is no Book of that upload and
\* no blob of that upload in the blob store
C4_UploadAllOrNothing ==
    \A r \in Slots :
        (reqs[r].op = "upload" /\ reqs[r].pc = "done" /\ resp[r].status = 500)
        => /\ reqs[r].sub \notin DOMAIN books
           /\ reqs[r].sub \notin blobs

\* no request is between two of its steps
NoRequestInFlight == \A r \in Slots : reqs[r].pc \in {"idle", "done"}

\* C17: whenever no request is in flight, every Book record references a blob
\* that is still in the blob store, whatever uploads and deleteBook requests
\* ran before, failing blob-store and database calls and concurrent deletions
\* of one Book included
C17_RecordsHaveBlobs ==
    NoRequestInFlight
    => \A b \in DOMAIN books : books[b].cloudinaryId \in blobs

----------------------------------------------------------------------------
(* Reading progress: two connections of user 1 upload and set the page      *)

ProgressFiles == {Pdf(MaxPages - 1), PdfNoCount}

\* req.body.page as the client may send it: -1, 0, the total, one over the
\* total, 1.5, "-1", "2", "x", "", null, true, and no page at all
ProgressPages ==
    {JNum(0 - 1, 0), JNum(0, 0), JNum(MaxPages - 1, 0), JNum(MaxPages, 0), JNum(1, 5),
     JStr(<<"-", "1">>), JStr(<<"2">>), JStr(<<"x">>), JStr(<<>>),
     JNull, JBool(TRUE), JUndefined}

NextProgress ==
    \/ \E r \in Slots, file \in ProgressFiles :
          UploadBook(r, Bearer(jwtSign(1, now)), file, JUndefined)
    \/ \E r \in Slots : UploadParse(r)
    \/ \E r \in Slots : UploadCloud(r, TRUE)
    \/ \E r \in Slots : UploadSave(r, TRUE)
    \/ \E r \in Slots : UploadUnlink(r, TRUE)
    \/ \E r \in Slots, page \in ProgressPages :
          UpdateProgress(r, Bearer(jwtSign(1, now)), MaxOid, page)
    \/ \E r \in Slots : UpdateProgressSave(r)
    \/ \E r \in Slots : Close(r)

\* both users registered, no Book stored, one ObjectId left to generate
InitProgress ==
    /\ users = LibraryUsers
    /\ books = NoBooks
    /\ blobs = {}
    /\ tmpFiles = {}
    /\ reqs = [r \in Slots |-> NoReq]
    /\ resp = [r \in Slots |-> NoResp]
    /\ now = TokenTTL - 1
    /\ nextOid = MaxOid

SpecProgress == InitProgress /\ [][NextProgress]_vars

\* C5: every stored Book with totalPages > 0 has 0 <= currentPage <= totalPages
C5_CurrentPageWithinTotal ==
    \A b \in DOMAIN books :
        books[b].totalPages > 0
        => /\ 0 <= books[b].currentPage
           /\ books[b].currentPage <= books[b].totalPages

\* a Book stands at its last page, and a request for a page beyond the last has
\* been refused
C5_Witness ==
    \E b \in DOMAIN books, r \in Slots :
        /\ books[b].totalPages > 0
        /\ books[b].currentPage = books[b].totalPages
        /\ reqs[r].op = "updateProgress" /\ reqs[r].pc = "done" /\ reqs[r].id = b
        /\ reqs[r].x.k = "number" /\ reqs[r].x.n > books[b].totalPages
        /\ resp[r].status = 400

\* the page of a request body is an integer: a JSON number without fraction, or
\* a string that spells one in decimal
PageIsInteger(v) ==
    \/ v.k = "number" /\ v.frac = 0
    \/ /\ v.k = "string"
       /\ LET t == trim(v.s)
              body == IF Len(t) > 0 /\ Head(t) = "-" THEN Tail(t) ELSE t
          IN  Len(body) > 0 /\ \A i \in 1..Len(body) : IsDigit(body[i])

PageValue(v) ==
    IF v.k = "number" THEN v.n
    ELSE LET t == trim(v.s)
         IN  IF Head(t) = "-" THEN 0 - DecimalValue(Tail(t)) ELSE DecimalValue(t)

\* C6: an updateProgress of the owner of a stored Book whose page is not an
\* integer, is negative, or exceeds the positive totalPages of the Book is
\* answered 400 at once and changes no Book
C6_BadPageRejected ==
    [][\A r \in Slots :
          (/\ Starts(r, "updateProgress")
           /\ reqs'[r].id \in DOMAIN books
           /\ books[reqs'[r].id].owner = reqs'[r].uid
           /\ LET v == reqs'[r].x
                  book == books[reqs'[r].id]
              IN  \/ ~PageIsInteger(v)
                  \/ PageValue(v) < 0
                  \/ book.totalPages > 0 /\ PageValue(v) > book.totalPages)
          => /\ reqs'[r].pc = "done"
             /\ resp'[r].status = 400
             /\ books' = books]_vars

----------------------------------------------------------------------------
(* The percentage: user 1 reads and sets the page of a Book of any length   *)

\* the Book of an uploaded PDF of 0 to MaxBookPages pages
InitPercent ==
    /\ users = LibraryUsers
    /\ \E n \in 0..MaxBookPages :
          books = Put(NoBooks, 1, [LibraryBook1 EXCEPT !.totalPages = n, !.currentPage = 0])
    /\ blobs = {1}
    /\ tmpFiles = {}
    /\ reqs = [r \in Slots |-> NoReq]
    /\ resp = [r \in Slots |-> NoResp]
    /\ now = TokenTTL - 1
    /\ nextOid = MaxOid

NextPercent ==
    \/ \E page \in 0..MaxBookPages : UpdateProgress(1, Bearer(jwtSign(1, now)), 1, JNum(page, 0))
    \/ UpdateProgressSave(1)
    \/ ListBooks(1, Bearer(jwtSign(1, now)))
    \/ Close(1)

SpecPercent == InitPercent /\ [][NextPercent]_vars

\* currentPage / totalPages * 100 rounded to the nearest integer, a half going
\* up, in exact arithmetic
RoundedPercent(currentPage, totalPages) ==
    IF totalPages = 0 THEN 0
    ELSE (200 * currentPage + totalPages) \div (2 * totalPages)

\* C10: the percentage in a Book of the list and in the answer of updateProgress
\* is round(currentPage / totalPages * 100) of the stored pages, and 0 when
\* totalPages is 0
C10_PercentIsRounded ==
    \A r \in Slots :
        /\ (reqs[r].op = "listBooks" /\ reqs[r].pc = "done" /\ resp[r].status = 200)
           => \A i \in 1..Len(resp[r].data) :
                 resp[r].data[i].progressPercentage =
                     RoundedPercent(resp[r].data[i].currentPage, resp[r].data[i].totalPages)
        /\ (reqs[r].op = "updateProgress" /\ reqs[r].pc = "done" /\ resp[r].status = 200)
           => resp[r].data[2] = RoundedPercent(resp[r].data[1], reqs[r].doc[1].totalPages)

----------------------------------------------------------------------------
(* The temporary file and the page count of an upload, under SpecUploads    *)

\* slot r has finished an upload for which multer wrote a temporary file
UploadEnded(r) == reqs[r].op = "upload" /\ reqs[r].pc = "done" /\ reqs[r].sub # 0

\* C11: once an upload that wrote a temporary file has ended, on whatever path,
\* its temporary file no longer exists
C11_TempFileRemoved ==
    \A r \in Slots : UploadEnded(r) => reqs[r].sub \notin tmpFiles

\* slot r takes the step that parses its uploaded file
Parses(r) == reqs[r].pc = "upload.parse" /\ reqs'[r] # reqs[r]

----------------------------------------------------------------------------
(* Vocabulary edits: two connections of user 1 edit and delete the entries  *)
(* of a Book with three entries                                             *)

VocabBook ==
    [LibraryBook1 EXCEPT !.vocabulary =
        <<[id |-> 3, word |-> Word1, definition |-> Text1],
          [id |-> 4, word |-> Word1, definition |-> Text1],
          [id |-> 5, word |-> Text2, definition |-> Text1]>>]

InitVocab ==
    /\ users = LibraryUsers
    /\ books = Put(NoBooks, 1, VocabBook)
    /\ blobs = {1}
    /\ tmpFiles = {}
    /\ reqs = [r \in Slots |-> NoReq]
    /\ resp = [r \in Slots |-> NoResp]
    /\ now = TokenTTL - 1
    /\ nextOid = MaxOid

NextVocab ==
    \/ \E r \in Slots, w \in ShelfWords, d \in ShelfTexts :
          UpdateVocab(r, Bearer(jwtSign(1, now)), 1, 4, w, d)
    \/ \E r \in Slots : UpdateVocabSave(r)
    \/ \E r \in Slots, sub \in {3, 4} : DeleteVocab(r, Bearer(jwtSign(1, now)), 1, sub)
    \/ \E r \in Slots : DeleteVocabSave(r)
    \/ \E r \in Slots : Close(r)

SpecVocab == InitVocab /\ [][NextVocab]_vars

\* slot r takes its step pc and ends with it
Ends(r, pc) == reqs[r].pc = pc /\ reqs'[r].pc = "done"

\* the request body supplies the field: a string that is not blank
Supplied(v) == v.k = "string" /\ trim(v.s) # <<>>

\* nothing but the vocabulary (and the version counter) of Book b changes
OnlyVocabularyChanges(b) ==
    /\ DOMAIN books' = DOMAIN books
    /\ \A c \in DOMAIN books : c # b => books'[c] = books[c]
    /\ [books'[b] EXCEPT !.vocabulary = books[b].vocabulary, !.v = books[b].v] = books[b]
    /\ UNCHANGED <<users, blobs>>

\* C13: a successful updateVocab leaves the number, the ids and the order of the
\* entries, every other entry, every other field of the Book and every other
\* Book as they were, sets in its entry the supplied fields to their trimmed
\* values and leaves a field that is not supplied unchanged; a successful
\* deleteVocab takes the entry with the given id out of the sequence and
\* leaves the others as they were, in their order; a failed one changes nothing
C13_VocabEditsFrame ==
    [][\A r \in Slots :
          LET b == reqs[r].id
              sub == reqs[r].sub
              old == books[b].vocabulary
              new == books'[b].vocabulary
          IN  /\ Ends(r, "updateVocab.save")
                 => IF resp'[r].status # 200 THEN books' = books
                    ELSE /\ OnlyVocabularyChanges(b)
                         /\ Len(new) = Len(old)
                         /\ \A j \in 1..Len(old) :
                               IF old[j].id # sub THEN new[j] = old[j]
                               ELSE /\ new[j].id = sub
                                    /\ new[j].word = IF Supplied(reqs[r].x)
                                                     THEN trim(reqs[r].x.s) ELSE old[j].word
                                    /\ new[j].definition = IF Supplied(reqs[r].y)
                                                           THEN trim(reqs[r].y.s)
                                                           ELSE old[j].definition
              /\ Ends(r, "deleteVocab.save")
                 => IF resp'[r].status # 200 THEN books' = books
                    ELSE /\ OnlyVocabularyChanges(b)
                         /\ \A j \in 1..Len(new) : new[j].id # sub
                         /\ \/ new = old
                            \/ \E i \in 1..Len(old) :
                                  /\ old[i].id = sub
                                  /\ new = SubSeq(old, 1, i - 1) \o SubSeq(old, i + 1, Len(old))]_vars

\* entry 3 has been deleted and entry 4 has been given a new word only: entry 4
\* has the new word and its old definition, entry 5 follows it as it was
C13_Witness ==
    /\ 1 \in DOMAIN books
    /\ books[1].vocabulary = <<[id |-> 4, word |-> trim(Word2), definition |-> Text1],
                               VocabBook.vocabulary[3]>>
    /\ \E r \in Slots :
          /\ reqs[r].op = "updateVocab" /\ reqs[r].pc = "done" /\ resp[r].status = 200
          /\ Supplied(reqs[r].x) /\ ~Supplied(reqs[r].y)

----------------------------------------------------------------------------
(* Passwords: user 1 changes the password and logs in, on two connections   *)

\* a password with a blank before and after it
PwPadded == <<" ">> \o Pw2 \o <<" ">>

OldPasswordInputs == {JStr(Pw1), JStr(Pw2), JStr(PwPadded), JUndefined}
NewPasswordInputs == {JStr(Pw1), JStr(Pw2), JStr(PwPadded), JStr(PwShort), JStr(<<>>)}

NextPassword ==
    \/ \E r \in Slots, o \in OldPasswordInputs, n \in NewPasswordInputs :
          ChangePassword(r, Bearer(jwtSign(1, now)), o, n)
    \/ \E r \in Slots : ChangePasswordSave(r)
    \/ \E r \in Slots, p \in {JStr(Pw1), JStr(Pw2), JStr(PwPadded)} :
          Login(r, JStr(Email1), p)
    \/ \E r \in Slots : Close(r)

SpecPassword == InitLibrary /\ [][NextPassword]_vars

\* the conditions of a password change, on the passwords as the request gives them
MayChangePassword(rq) ==
    /\ rq.x.k = "string" /\ rq.x.s # <<>>
    /\ rq.y.k = "string" /\ rq.y.s # <<>>
    /\ Len(rq.y.s) >= MinPasswordLen
    /\ rq.y.s # rq.x.s
    /\ users[rq.uid].password = bcryptHash(rq.x.s)

\* the status of a login of user u with password pw on the User collection coll
LoginStatus(coll, u, pw) == LoginStart(coll, now, JStr(coll[u].email), JStr(pw)).rs.status

\* C14: an authenticated changePassword goes on to replace the hash only when
\* both passwords are non-empty, the new one has 8 characters or more and differs
\* from the old one, and the old one matches the stored hash; otherwise it is
\* answered an error and no User changes; and once it has replaced the hash, a
\* login with the new password succeeds and a login with the old password fails
C14_ChangePassword ==
    [][\A r \in Slots :
          /\ (Starts(r, "changePassword") /\ reqs'[r].uid # 0)
             => IF MayChangePassword(reqs'[r])
                THEN reqs'[r].pc = "changePassword.save"
                ELSE /\ reqs'[r].pc = "done"
                     /\ resp'[r].status \in {400, 404}
                     /\ users' = users
          /\ (Ends(r, "changePassword.save") /\ resp'[r].status = 200)
             => /\ LoginStatus(users', reqs[r].uid, reqs[r].y.s) = 200
                /\ LoginStatus(users', reqs[r].uid, reqs[r].x.s) = 400]_vars

----------------------------------------------------------------------------
(* The filters of the Book queries, under SpecShelf                          *)

\* the collection with Book id handed to an owner that is no user
Reowned(coll, id) == [coll EXCEPT ![id].owner = 0]

\* the lookup of a book request of a user on a stored Book treats the Book as
\* absent as soon as it has another owner: it is filtered by _id and owner
LookupFilteredByOwner(r) ==
    ((\E op \in BookOps : Starts(r, op)) /\ reqs'[r].uid # 0 /\ reqs'[r].id \in DOMAIN books)
    => /\ FirstStep(reqs'[r], Reowned(books, reqs'[r].id)).rs
             = FirstStep(reqs'[r], Drop(books, reqs'[r].id)).rs
       /\ FirstStep(reqs'[r], Reowned(books, reqs'[r].id)).rq.pc = "done"

====
